---------------------------- MODULE Spec2Model ----------------------------
(***************************************************************************)
(* Model of the numerical core of the options toolkit:                     *)
(*   - BlackScholes        (src/unnamed/part_001, lib/black-scholes.js)    *)
(*   - MonteCarloEngine    (src/lib/monte-carlo.js)                        *)
(*   - PortfolioOptimizer  (src/index.html lines 176-397,                  *)
(*                          lib/portfolio-optimizer.js)                    *)
(*                                                                         *)
(* JavaScript numbers are modelled as decimal fixed-point numbers with     *)
(* resolution 1/SCALE, plus the three non-finite values NaN, +Infinity and *)
(* -Infinity that a division by zero produces.  Every multiplication and   *)
(* division rounds to the nearest representable value, as IEEE arithmetic  *)
(* does at its own (finer) resolution, and a result beyond MaxNumber        *)
(* overflows to an infinity, as it does beyond Number.MAX_VALUE.  Signed   *)
(* zero is not modelled.                                                   *)
(***************************************************************************)
EXTENDS Integers, Sequences, FiniteSets

(***************************************************************************)
(* Number representation                                                   *)
(***************************************************************************)
SCALE == 100 * 100

Huge == 2^30
PosInf == Huge + 1
NegInf == -(Huge + 1)
NaN == Huge + 2

\* the largest finite magnitude; results beyond it overflow to an infinity
MaxNumber == Huge \div 2

IsNaN(x) == x = NaN
IsFinite(x) == x # NaN /\ x # PosInf /\ x # NegInf

Overflow(x) ==
    IF x > MaxNumber THEN PosInf ELSE IF x < -MaxNumber THEN NegInf ELSE x

Fix(n) == n * SCALE

AbsInt(x) == IF x < 0 THEN -x ELSE x
SgnInt(x) == IF x < 0 THEN -1 ELSE IF x > 0 THEN 1 ELSE 0
MinInt(a, b) == IF a <= b THEN a ELSE b
MaxInt(a, b) == IF a >= b THEN a ELSE b

\* round-to-nearest quotient of two naturals, d > 0
RoundDivNat(n, d) == (2 * n + d) \div (2 * d)

\* x * y / SCALE for naturals, both factors split to stay in range
MulNat(x, y) ==
    LET xh == x \div SCALE
        xl == x % SCALE
        yh == y \div SCALE
        yl == y % SCALE
    IN  xh * yh * SCALE + xh * yl + xl * yh + RoundDivNat(xl * yl, SCALE)

\* the product of the naturals x and y lies beyond MaxNumber
MulOverflows(x, y) ==
    /\ x \div SCALE > 0
    /\ y \div SCALE > (MaxNumber \div SCALE) \div (x \div SCALE)

MulFix(a, b) == SgnInt(a) * SgnInt(b) * MulNat(AbsInt(a), AbsInt(b))

RECURSIVE ScaleDivMod(_, _, _)
\* << (r * m) \div b, (r * m) % b >> for naturals r < b, by doubling
ScaleDivMod(r, m, b) ==
    IF m = 0 THEN <<0, 0>>
    ELSE LET h == ScaleDivMod(r, m \div 2, b)
             d == IF 2 * h[2] >= b THEN <<2 * h[1] + 1, 2 * h[2] - b>>
                  ELSE <<2 * h[1], 2 * h[2]>>
         IN  IF m % 2 = 0 THEN d
             ELSE IF d[2] + r >= b THEN <<d[1] + 1, d[2] + r - b>>
             ELSE <<d[1], d[2] + r>>

\* round-to-nearest r * SCALE / b for naturals r < b
FracNat(r, b) ==
    IF r <= MaxNumber \div SCALE THEN RoundDivNat(r * SCALE, b)
    ELSE LET qr == ScaleDivMod(r, SCALE, b)
         IN  qr[1] + (IF 2 * qr[2] >= b THEN 1 ELSE 0)

\* a * SCALE / b for naturals, b > 0 (a whole-number divisor divides directly)
DivNat(a, b) ==
    IF b % SCALE = 0 THEN RoundDivNat(a, b \div SCALE)
    ELSE (a \div b) * SCALE + FracNat(a % b, b)

DivFix(a, b) == SgnInt(a) * SgnInt(b) * DivNat(AbsInt(a), AbsInt(b))

(***************************************************************************)
(* JavaScript arithmetic on numbers (finite or not)                        *)
(***************************************************************************)
FNeg(x) ==
    IF x = NaN THEN NaN
    ELSE IF x = PosInf THEN NegInf
    ELSE IF x = NegInf THEN PosInf
    ELSE -x

FAdd(a, b) ==
    IF a = NaN \/ b = NaN THEN NaN
    ELSE IF ~IsFinite(a) THEN (IF ~IsFinite(b) /\ b # a THEN NaN ELSE a)
    ELSE IF ~IsFinite(b) THEN b
    ELSE Overflow(a + b)

FSub(a, b) == FAdd(a, FNeg(b))

FMul(a, b) ==
    IF a = NaN \/ b = NaN THEN NaN
    ELSE IF ~IsFinite(a) \/ ~IsFinite(b)
         THEN (IF a = 0 \/ b = 0 THEN NaN
               ELSE IF SgnInt(a) * SgnInt(b) > 0 THEN PosInf ELSE NegInf)
    ELSE IF MulOverflows(AbsInt(a), AbsInt(b))
         THEN (IF SgnInt(a) * SgnInt(b) > 0 THEN PosInf ELSE NegInf)
    ELSE Overflow(MulFix(a, b))

FDiv(a, b) ==
    IF a = NaN \/ b = NaN THEN NaN
    ELSE IF ~IsFinite(a)
         THEN (IF ~IsFinite(b) THEN NaN
               ELSE IF (a = PosInf) = (b >= 0) THEN PosInf ELSE NegInf)
    ELSE IF ~IsFinite(b) THEN 0
    ELSE IF b = 0
         THEN (IF a = 0 THEN NaN ELSE IF a > 0 THEN PosInf ELSE NegInf)
    ELSE IF AbsInt(a) \div AbsInt(b) > MaxNumber \div SCALE
         THEN (IF SgnInt(a) * SgnInt(b) > 0 THEN PosInf ELSE NegInf)
    ELSE Overflow(DivFix(a, b))

\* a < b, a <= b, a > b as JavaScript evaluates them: false when either is NaN
FLt(a, b) == a # NaN /\ b # NaN /\ a < b
FLe(a, b) == a # NaN /\ b # NaN /\ a <= b
FGt(a, b) == FLt(b, a)

\* Math.max, Math.abs
FMax(a, b) == IF a = NaN \/ b = NaN THEN NaN ELSE IF a >= b THEN a ELSE b
FAbs(x) == IF x = NaN THEN NaN ELSE IF x = NegInf THEN PosInf ELSE AbsInt(x)

(***************************************************************************)
(* Math.sqrt, Math.exp, Math.log at the model's resolution                 *)
(***************************************************************************)
RECURSIVE Newton(_, _)
\* floor of the integer square root of n >= 1, from a guess g >= sqrt(n)
Newton(n, g) ==
    LET h == (g + n \div g) \div 2
    IN  IF h >= g THEN g ELSE Newton(n, h)

ISqrt(n) == IF n = 0 THEN 0 ELSE Newton(n, n)

\* sqrt(x) for x >= 0, rounded to nearest; beyond the range of x * SCALE the
\* root of the whole part of x * SCALE / SCALE^2 is refined by one Newton
\* step, which is within a unit of the last digit
SqrtFix(x) ==
    IF x <= MaxNumber \div SCALE
    THEN LET n == x * SCALE
             r == ISqrt(n)
         IN  IF (r + 1) * (r + 1) - n <= n - r * r THEN r + 1 ELSE r
    ELSE LET s == ISqrt(x)
         IN  100 * s + RoundDivNat(50 * (x - s * s), s)

FSqrt(x) ==
    IF x = NaN \/ x = NegInf THEN NaN
    ELSE IF x = PosInf THEN PosInf
    ELSE IF x < 0 THEN NaN
    ELSE SqrtFix(x)

RECURSIVE ExpSeries(_, _, _, _)
\* sum of the Taylor terms of e^f from term number k on; term = f^(k-1)/(k-1)!
ExpSeries(f, term, k, n) ==
    IF k > n \/ term = 0 THEN 0
    ELSE term + ExpSeries(f, DivFix(MulFix(term, f), Fix(k)), k + 1, n)

\* Euler's number, the series at 1
EulerE == ExpSeries(SCALE, SCALE, 1, 12)

RECURSIVE ExpFix(_)
ExpFix(x) ==
    IF x < 0 THEN DivFix(SCALE, ExpFix(-x))
    ELSE IF x >= SCALE THEN MulFix(EulerE, ExpFix(x - SCALE))
    ELSE ExpSeries(x, SCALE, 1, 12)

FExp(x) ==
    IF x = NaN THEN NaN
    ELSE IF x = PosInf THEN PosInf
    ELSE IF x = NegInf THEN 0
    ELSE ExpFix(x)

RECURSIVE AtanhSeries(_, _, _, _)
\* z + z^3/3 + z^5/5 + ... ; pow = z^k
AtanhSeries(z2, pow, k, n) ==
    IF k > n \/ pow = 0 THEN 0
    ELSE DivFix(pow, Fix(k)) + AtanhSeries(z2, MulFix(pow, z2), k + 2, n)

RECURSIVE LnFix(_)
\* natural logarithm of x > 0
LnFix(x) ==
    IF x > 2 * SCALE THEN SCALE + LnFix(DivFix(x, EulerE))
    ELSE IF 2 * x < SCALE THEN LnFix(MulFix(x, EulerE)) - SCALE
    ELSE LET z == DivFix(x - SCALE, x + SCALE)
         IN  2 * AtanhSeries(MulFix(z, z), z, 1, 15)

FLog(x) ==
    IF x = NaN \/ x = NegInf THEN NaN
    ELSE IF x = PosInf THEN PosInf
    ELSE IF x < 0 THEN NaN
    ELSE IF x = 0 THEN NegInf
    ELSE LnFix(x)

(***************************************************************************)
(* Strings: String.prototype.toLowerCase on the option types used here, and *)
(* the value `undefined` of a missing property.                            *)
(***************************************************************************)
Undefined == "<undefined>"

\* the type compared as written, letter case included
toLowerCase_identity(s) == s

toLowerCase(s) ==
    IF s \in {"call", "Call", "CALL"} THEN "call"
    ELSE IF s \in {"put", "Put", "PUT"} THEN "put"
    ELSE s

(***************************************************************************)
(* BlackScholes                                                            *)
(***************************************************************************)
\* the result of a call that ended in a TypeError
Threw == [threw |-> TRUE, price |-> 0, delta |-> 0, gamma |-> 0,
          vega |-> 0, theta |-> 0, rho |-> 0]

Greeks(price, delta, gamma, vega, theta, rho) ==
    [threw |-> FALSE, price |-> price, delta |-> delta, gamma |-> gamma,
     vega |-> vega, theta |-> theta, rho |-> rho]

erfPoly(t) ==
    LET a1 == 2548
        a2 == -2845
        a3 == 14214
        a4 == -14532
        a5 == 10614
    IN  FMul(FAdd(FMul(FAdd(FMul(FAdd(FMul(FAdd(FMul(a5, t), a4), t), a3), t),
                            a2), t), a1), t)

\* 0.5 + sign * erf: the parentheses of line 26 lost
normalCDF_noParens(x0) ==
    LET p    == 3276
        sign == IF FLt(x0, 0) THEN -SCALE ELSE SCALE
        x    == FDiv(FAbs(x0), FSqrt(Fix(2)))
        t    == FDiv(SCALE, FAdd(SCALE, FMul(p, x)))
        erf  == FSub(SCALE, FMul(erfPoly(t), FExp(FNeg(FMul(x, x)))))
    IN  FAdd(SCALE \div 2, FMul(sign, erf))

normalCDF(x0) ==
    LET p    == 3276
        sign == IF FLt(x0, 0) THEN -SCALE ELSE SCALE
        x    == FDiv(FAbs(x0), FSqrt(Fix(2)))
        t    == FDiv(SCALE, FAdd(SCALE, FMul(p, x)))
        erf  == FSub(SCALE, FMul(erfPoly(t), FExp(FNeg(FMul(x, x)))))
    IN  FMul(SCALE \div 2, FAdd(SCALE, FMul(sign, erf)))

normalPDF(x) ==
    LET TwoPi == 62832
    IN  FDiv(FExp(FMul(-(SCALE \div 2), FMul(x, x))), FSqrt(TwoPi))

d1(S, K, r, v, T) ==
    FDiv(FAdd(FLog(FDiv(S, K)),
              FMul(FAdd(r, FMul(SCALE \div 2, FMul(v, v))), T)),
         FMul(v, FSqrt(T)))

d2(d1Value, v, T) == FSub(d1Value, FMul(v, FSqrt(T)))

\* S >= K in place of S > K in the call's delta
calculateExpired_ge(params) ==
    IF params.type = Undefined THEN Threw
    ELSE
    LET S == params.S
        K == params.K
        isCall == toLowerCase(params.type) = "call"
    IN  Greeks(FMax(0, IF isCall THEN FSub(S, K) ELSE FSub(K, S)),
               IF isCall THEN (IF FLe(K, S) THEN SCALE ELSE 0)
                         ELSE (IF FLt(S, K) THEN -SCALE ELSE 0),
               0, 0, 0, 0)

calculateExpired(params) ==
    IF params.type = Undefined THEN Threw
    ELSE
    LET S == params.S
        K == params.K
        isCall == toLowerCase(params.type) = "call"
    IN  Greeks(FMax(0, IF isCall THEN FSub(S, K) ELSE FSub(K, S)),
               IF isCall THEN (IF FGt(S, K) THEN SCALE ELSE 0)
                         ELSE (IF FLt(S, K) THEN -SCALE ELSE 0),
               0, 0, 0, 0)

\* theta left at 0 as in the expired result
calculateZeroVol_noTheta(params) ==
    IF params.type = Undefined THEN Threw
    ELSE
    LET S == params.S
        K == params.K
        r == params.r
        T == params.T
        discount == FExp(FNeg(FMul(r, T)))
        isCall == toLowerCase(params.type) = "call"
        price == IF isCall THEN FMax(0, FSub(S, FMul(K, discount)))
                           ELSE FMax(0, FSub(FMul(K, discount), S))
    IN  Greeks(price,
               IF isCall THEN (IF FGt(S, FMul(K, discount)) THEN SCALE ELSE 0)
                         ELSE (IF FLt(S, FMul(K, discount)) THEN -SCALE ELSE 0),
               0, 0, 0,
               IF isCall THEN FDiv(FMul(FMul(K, T), discount), Fix(100))
                         ELSE FDiv(FMul(FMul(FNeg(K), T), discount), Fix(100)))

calculateZeroVol(params) ==
    IF params.type = Undefined THEN Threw
    ELSE
    LET S == params.S
        K == params.K
        r == params.r
        T == params.T
        discount == FExp(FNeg(FMul(r, T)))
        isCall == toLowerCase(params.type) = "call"
        price == IF isCall THEN FMax(0, FSub(S, FMul(K, discount)))
                           ELSE FMax(0, FSub(FMul(K, discount), S))
    IN  Greeks(price,
               IF isCall THEN (IF FGt(S, FMul(K, discount)) THEN SCALE ELSE 0)
                         ELSE (IF FLt(S, FMul(K, discount)) THEN -SCALE ELSE 0),
               0, 0,
               FDiv(FMul(FMul(FNeg(r), K), discount), Fix(365)),
               IF isCall THEN FDiv(FMul(FMul(K, T), discount), Fix(100))
                         ELSE FDiv(FMul(FMul(FNeg(K), T), discount), Fix(100)))

\* the put priced with N(d2), N(d1) in place of N(-d2), N(-d1)
rawPrice_putUsesNd(params) ==
    LET S == params.S
        K == params.K
        d1Value == d1(S, K, params.r, params.v, params.T)
        d2Value == d2(d1Value, params.v, params.T)
        discount == FExp(FNeg(FMul(params.r, params.T)))
    IN  IF toLowerCase(params.type) = "call"
        THEN FSub(FMul(S, normalCDF(d1Value)),
                  FMul(FMul(K, discount), normalCDF(d2Value)))
        ELSE FSub(FMul(FMul(K, discount), normalCDF(d2Value)),
                  FMul(S, normalCDF(d1Value)))

\* the unfloored price of the general formula (part_001 lines 94 and 98)
rawPrice(params) ==
    LET S == params.S
        K == params.K
        d1Value == d1(S, K, params.r, params.v, params.T)
        d2Value == d2(d1Value, params.v, params.T)
        discount == FExp(FNeg(FMul(params.r, params.T)))
    IN  IF toLowerCase(params.type) = "call"
        THEN FSub(FMul(S, normalCDF(d1Value)),
                  FMul(FMul(K, discount), normalCDF(d2Value)))
        ELSE FSub(FMul(FMul(K, discount), normalCDF(FNeg(d2Value))),
                  FMul(S, normalCDF(FNeg(d1Value))))

\* the price returned as computed
floorPrice_none(price) == price

\* Math.max(0, price) in the returned object (part_001 line 117)
floorPrice(price) == FMax(0, price)

calculateGeneral(params) ==
    IF params.type = Undefined THEN Threw
    ELSE
    LET S == params.S
        K == params.K
        r == params.r
        v == params.v
        T == params.T
        d1Value == d1(S, K, r, v, T)
        d2Value == d2(d1Value, v, T)
        Nd1 == normalCDF(d1Value)
        Nd2 == normalCDF(d2Value)
        NNd1 == normalCDF(FNeg(d1Value))
        NNd2 == normalCDF(FNeg(d2Value))
        discount == FExp(FNeg(FMul(r, T)))
        sqrtT == FSqrt(T)
        isCall == toLowerCase(params.type) = "call"
        delta == IF isCall THEN Nd1 ELSE FNeg(NNd1)
        rho == IF isCall
               THEN FDiv(FMul(FMul(FMul(K, T), discount), Nd2), Fix(100))
               ELSE FDiv(FMul(FMul(FMul(FNeg(K), T), discount), NNd2), Fix(100))
        gamma == FDiv(normalPDF(d1Value), FMul(FMul(S, v), sqrtT))
        vega == FDiv(FMul(FMul(S, sqrtT), normalPDF(d1Value)), Fix(100))
        term1 == FDiv(FNeg(FMul(FMul(S, v), normalPDF(d1Value))),
                      FMul(Fix(2), sqrtT))
        term2 == FMul(FMul(r, K), discount)
        theta == IF isCall
                 THEN FDiv(FSub(term1, FMul(term2, Nd2)), Fix(365))
                 ELSE FDiv(FAdd(term1, FMul(term2, NNd2)), Fix(365))
    IN  Greeks(floorPrice(rawPrice(params)), delta, gamma, vega, theta, rho)

\* the two edge-case tests in the other order
calculate_volFirst(params) ==
    IF FLe(params.v, 0) THEN calculateZeroVol(params)
    ELSE IF FLe(params.T, 0) THEN calculateExpired(params)
    ELSE calculateGeneral(params)

calculate(params) ==
    IF FLe(params.T, 0) THEN calculateExpired(params)
    ELSE IF FLe(params.v, 0) THEN calculateZeroVol(params)
    ELSE calculateGeneral(params)

(***************************************************************************)
(* Inputs of the pricing engine                                            *)
(***************************************************************************)
SpotValues == {80000, 100000, 125000}
StrikeValues == {80000, 100000, 125000}
RateValues == {-500, 0, 500}
VolValues == {-2000, 0, 2000, 4000}
ExpiryValues == {-10000, 0, 3600, 10000}
TypeValues == {"call", "put", "Call", "PUT", "straddle", Undefined}

OptionParameters ==
    [S : SpotValues, K : StrikeValues, r : RateValues, v : VolValues,
     T : ExpiryValues, type : TypeValues]

NoParams == [S |-> 0, K |-> 0, r |-> 0, v |-> 0, T |-> 0, type |-> Undefined]
NoResult == Greeks(0, 0, 0, 0, 0, 0)

VARIABLES
    bsParams,   \* the OptionParameters handed to BlackScholes.calculate
    bsPc,       \* "idle" (not in use), "ready" (before the call), "done"
    bsResult,   \* the object BlackScholes.calculate returned
    riskArgs,   \* [paths, confidence, initialValue] of calculateRiskMetrics
    riskPc,     \* "idle", "ready", "done"
    riskResult, \* the object calculateRiskMetrics returned
    mcEntry,    \* the entry point in use: "generatePath", "priceOption", "idle"
    mcParams,   \* the params object handed to the entry point
    mcPc,       \* "idle", "path" (in generatePath's loop), "payoff", "done"
    path,       \* generatePath's array `path`
    draws,      \* the values boxMuller() returned for `path`, in order
    allPaths,   \* generatePaths' array `allPaths`
    allDraws,   \* the draws of each path of allPaths
    mcResult,   \* the object priceOption returned
    optParams,  \* optimizePortfolio's params: returns, covariance,
                \* targetReturn, constraints
    optPc,      \* "idle", "loop", "break" (target met), "exhausted"
    iter,       \* optimizePortfolio's loop counter
    weights,    \* optimizePortfolio's array `weights`
    prevWeights, \* the array `weights` referred to before the last iteration
    weightsRef, \* the identity of the array `weights` refers to
    allocated,  \* number of arrays created for `weights`: identities
                \* 1..allocated
    pmArgs,     \* calculatePortfolioMetrics' params: weights, returns,
                \* covariance
    pmPc,       \* "idle", "ready", "done"
    pmResult,   \* the object calculatePortfolioMetrics returned
    frParams,   \* generateEfficientFrontier's params: returns, covariance,
                \* riskFreeRate, points
    frPc,       \* "idle", "optimize" (inside optimizePortfolio), "pushed"
                \* (the point of this iteration pushed), "done"
    frontier,   \* generateEfficientFrontier's array `frontier`
    bmPc,       \* boxMuller: "idle", "draw" (in the loop body), "test" (at
                \* the loop's test), "done"
    u1,         \* boxMuller's u1
    u2,         \* boxMuller's u2
    randomCalls, \* calls of Math.random() boxMuller made
    attempts,   \* executions of boxMuller's loop body
    logTaken,   \* the arguments Math.log was called with, in order
    z0,         \* the value boxMuller returned
    uiInputs,   \* the numbers parseFloat reads from the input fields, and
                \* the option type selected
    uiPc,       \* the Calculate button: "idle", "ready", "done"
    uiFields,   \* textContent of the six result elements
    uiCaught,   \* the click handler's catch branch ran
    uiAlerts,   \* the messages alert() showed
    uiResult    \* const result of the handler (Threw when calculate threw)

bsVars == <<bsParams, bsPc, bsResult>>
riskVars == <<riskArgs, riskPc, riskResult>>
mcVars == <<mcEntry, mcParams, mcPc, path, draws, allPaths, allDraws, mcResult>>
optVars == <<optParams, optPc, iter, weights, prevWeights, weightsRef,
            allocated>>
pmVars == <<pmArgs, pmPc, pmResult>>
frVars == <<frParams, frPc, frontier>>
bmVars == <<bmPc, u1, u2, randomCalls, attempts, logTaken, z0>>
uiVars == <<uiInputs, uiPc, uiFields, uiCaught, uiAlerts, uiResult>>
vars == <<bsVars, riskVars, mcVars, optVars, pmVars, frVars, bmVars, uiVars>>

bsIdle == bsParams = NoParams /\ bsPc = "idle" /\ bsResult = NoResult

InitBS ==
    /\ bsParams \in OptionParameters
    /\ bsPc = "ready"
    /\ bsResult = NoResult

\* one call of BlackScholes.calculate(params)
Calculate ==
    /\ bsPc = "ready"
    /\ bsResult' = calculate(bsParams)
    /\ bsPc' = "done"
    /\ UNCHANGED <<bsParams, riskVars, mcVars, optVars, pmVars, frVars, bmVars, uiVars>>

(***************************************************************************)
(* Properties of the pricing engine (checked under SpecBS)                 *)
(***************************************************************************)
bsDone == bsPc = "done"
bsKind == bsParams.type \in {"call", "put"}
bsExpiredPath == bsParams.T <= 0
bsZeroVolPath == bsParams.T > 0 /\ bsParams.v <= 0
bsGeneralPath == bsParams.T > 0 /\ bsParams.v > 0

\* K * e^(-rT) and the intrinsic values, written out independently
DiscountedStrike(p) == FMul(p.K, FExp(FNeg(FMul(p.r, p.T))))
Intrinsic(kind, S, K) ==
    IF kind = "call" THEN (IF S - K > 0 THEN S - K ELSE 0)
                     ELSE (IF K - S > 0 THEN K - S ELSE 0)

\* C3: with T <= 0 and kind call or put, calculate does not throw and returns
\* the expired result: price = intrinsic value, delta = 1 (call, S > K),
\* -1 (put, S < K) and otherwise 0, gamma = vega = theta = rho = 0.
C3_ExpiredResult ==
    (bsDone /\ bsKind /\ bsExpiredPath) =>
        /\ bsResult.threw = FALSE
        /\ bsResult.price = Intrinsic(bsParams.type, bsParams.S, bsParams.K)
        /\ bsResult.delta =
             (IF bsParams.type = "call"
              THEN (IF bsParams.S > bsParams.K THEN SCALE ELSE 0)
              ELSE (IF bsParams.S < bsParams.K THEN -SCALE ELSE 0))
        /\ (bsParams.S = bsParams.K => bsResult.delta = 0)
        /\ bsResult.gamma = 0 /\ bsResult.vega = 0
        /\ bsResult.theta = 0 /\ bsResult.rho = 0

C3_Witness ==
    /\ bsDone /\ bsParams.T < 0 /\ bsParams.v > 0 /\ bsParams.r # 0
    /\ bsParams.type = "call" /\ bsParams.S = bsParams.K
    /\ bsResult.threw = FALSE /\ bsResult.delta = 0 /\ bsResult.price = 0

C4_ThetaRhoNonZero ==
    (bsDone /\ bsKind /\ bsZeroVolPath) =>
        /\ bsResult.price =
             Intrinsic(bsParams.type, bsParams.S, DiscountedStrike(bsParams))
        /\ bsResult.gamma = 0 /\ bsResult.vega = 0
        /\ bsResult.theta # 0 /\ bsResult.rho # 0

\* C4 amended: with T > 0 and v <= 0 the price is the discounted intrinsic
\* value, gamma = vega = 0, rho is non-zero, and theta is non-zero exactly
\* when r # 0 (theta = -r*K*e^(-rT)/365 is 0 at r = 0).
C4_ZeroVolResult ==
    (bsDone /\ bsKind /\ bsZeroVolPath) =>
        /\ bsResult.threw = FALSE
        /\ bsResult.price =
             Intrinsic(bsParams.type, bsParams.S, DiscountedStrike(bsParams))
        /\ bsResult.gamma = 0 /\ bsResult.vega = 0
        /\ bsResult.rho # 0
        /\ (bsResult.theta # 0 <=> bsParams.r # 0)
        /\ (bsParams.r = 0 => bsResult.theta = 0)

C4_Witness ==
    /\ bsDone /\ bsKind /\ bsZeroVolPath /\ bsParams.r = 0
    /\ bsResult.theta = 0 /\ bsResult.rho # 0 /\ bsResult.price > 0

\* C5: for T >= 0 and v >= 0 (S, K > 0, kind call or put) the returned price
\* is a number >= 0 on the general, the expired and the zero-volatility path.
C5_PriceNonNegative ==
    (bsDone /\ bsKind /\ bsParams.T >= 0 /\ bsParams.v >= 0) =>
        /\ bsResult.threw = FALSE
        /\ FLe(0, bsResult.price)

\* the general formula came out negative and was floored
C5_Witness ==
    /\ bsDone /\ bsKind /\ bsGeneralPath
    /\ FLt(rawPrice(bsParams), 0)
    /\ bsResult.price = 0

\* C6: gamma >= 0 and vega >= 0 on every path; delta is in [0, 1] for a call
\* and in [-1, 0] for a put.
C6_GreeksSanity ==
    (bsDone /\ bsKind) =>
        /\ FLe(0, bsResult.gamma)
        /\ FLe(0, bsResult.vega)
        /\ (bsParams.type = "call" =>
                FLe(0, bsResult.delta) /\ FLe(bsResult.delta, SCALE))
        /\ (bsParams.type = "put" =>
                FLe(-SCALE, bsResult.delta) /\ FLe(bsResult.delta, 0))

C6_Witness ==
    /\ bsDone /\ bsGeneralPath /\ bsParams.type = "put"
    /\ bsResult.delta < 0 /\ bsResult.delta > -SCALE
    /\ bsResult.gamma > 0 /\ bsResult.vega > 0

\* The claims' tolerance 1e-6 absorbs the rounding of the products S*N(d1)
\* and K*e^(-rT)*N(d2).  At the model's resolution one unit of N carries
\* S/SCALE (resp. K/SCALE) into the price, plus one unit for each rounding.
ParityTol(p) == (p.S + p.K) \div SCALE + 2

\* call.price - put.price - (S - K*e^(-rT)) for the parameters p
ParityGap(callPrice, p) ==
    FSub(FSub(callPrice, calculate([p EXCEPT !.type = "put"]).price),
         FSub(p.S, DiscountedStrike(p)))

compareReturns_reversed(a, b) == FSub(b, a)

\* the comparator (a, b) => a - b handed to Array.prototype.sort
compareReturns(a, b) == FSub(a, b)

RECURSIVE Insert(_, _)
\* x put into the sorted sequence s: before the first element it compares
\* below (comparator result < 0)
Insert(x, s) ==
    IF s = <<>> THEN <<x>>
    ELSE IF FLt(compareReturns(x, Head(s)), 0) THEN <<x>> \o s
    ELSE <<Head(s)>> \o Insert(x, Tail(s))

RECURSIVE sortReturns(_)
\* returns.sort((a, b) => a - b)
sortReturns(returns) ==
    IF returns = <<>> THEN <<>>
    ELSE Insert(Head(returns), sortReturns(Tail(returns)))

\* Math.ceil in the place of Math.floor
FloorTimes_ceil(n, x) == -((-(n * x)) \div SCALE)

\* Math.floor(n * x) for a whole number n and a number x
FloorTimes(n, x) == (n * x) \div SCALE

\* array[i] used as a number, 0-based: a missing element is undefined -> NaN
ElementAt(array, i) ==
    IF i >= 0 /\ i < Len(array) THEN array[i + 1] ELSE NaN

\* array.slice(0, end)
SliceFromStart(array, end) ==
    LET stop == IF end < 0 THEN MaxInt(Len(array) + end, 0)
                ELSE MinInt(end, Len(array))
    IN  SubSeq(array, 1, stop)

RECURSIVE SumSeq(_)
\* array.reduce((sum, x) => sum + x, 0)
SumSeq(array) ==
    IF array = <<>> THEN 0
    ELSE FAdd(SumSeq(SubSeq(array, 1, Len(array) - 1)), array[Len(array)])

pathReturns(paths) ==
    [i \in 1..Len(paths) |->
        LET pricePath == paths[i]
            finalPrice == pricePath[Len(pricePath)]
        IN  FDiv(FSub(finalPrice, pricePath[1]), pricePath[1])]

\* the index taken at the confidence level itself
varIndexOf_atConfidence(n, confidence) == FloorTimes(n, confidence)

\* Math.floor(returns.length * (1 - confidence))
varIndexOf(n, confidence) == FloorTimes(n, FSub(SCALE, confidence))

calculateRiskMetrics(paths, confidence, initialValue) ==
    LET returns == sortReturns(pathReturns(paths))
        varIndex == varIndexOf(Len(returns), confidence)
        var95 == FMul(FNeg(ElementAt(returns, varIndex)), initialValue)
        cvar == FMul(FDiv(FNeg(SumSeq(SliceFromStart(returns, varIndex))),
                          Fix(varIndex)),
                     initialValue)
    IN  [valueAtRisk |-> var95,
         conditionalVaR |-> cvar,
         worstReturn |-> ElementAt(returns, 0),
         bestReturn |-> ElementAt(returns, Len(returns) - 1)]

(***************************************************************************)
(* Inputs of calculateRiskMetrics                                          *)
(***************************************************************************)
MaxRiskPaths == 3

\* price paths as generatePath returns them; only both ends are read
RiskPathValues ==
    {<<100000, 80000>>, <<100000, 110000, 100000>>, <<100000, 125000>>,
     <<80000, 60000>>}
ConfidenceValues == {0, 1, 5000, 7000, 9500, 10000}
InitialValues == {Fix(1), Fix(100)}

RiskPathSets ==
    UNION {[1..n -> RiskPathValues] : n \in 1..MaxRiskPaths}

NoRiskArgs == [paths |-> <<>>, confidence |-> 0, initialValue |-> 0]
NoRiskResult ==
    [valueAtRisk |-> 0, conditionalVaR |-> 0, worstReturn |-> 0,
     bestReturn |-> 0]

riskIdle ==
    riskArgs = NoRiskArgs /\ riskPc = "idle" /\ riskResult = NoRiskResult

InitRisk ==
    /\ riskArgs \in [paths : RiskPathSets, confidence : ConfidenceValues,
                     initialValue : InitialValues]
    /\ riskPc = "ready"
    /\ riskResult = NoRiskResult

\* one call of MonteCarloEngine.calculateRiskMetrics
CalculateRiskMetrics ==
    /\ riskPc = "ready"
    /\ riskResult' = calculateRiskMetrics(riskArgs.paths, riskArgs.confidence,
                                          riskArgs.initialValue)
    /\ riskPc' = "done"
    /\ UNCHANGED <<riskArgs, bsVars, mcVars, optVars, pmVars, frVars, bmVars, uiVars>>

(***************************************************************************)
(* Properties of calculateRiskMetrics (checked under SpecRisk)             *)
(***************************************************************************)
riskDone == riskPc = "done"
riskN == Len(riskArgs.paths)
riskVarIndex == ((SCALE - riskArgs.confidence) * riskN) \div SCALE

\* C2: when the VaR index is 0, conditionalVaR is the sentinel 0, not the
\* non-finite result of dividing the empty sum by zero.
C2_CVaRGuarded ==
    (riskDone /\ riskVarIndex = 0) => riskResult.conditionalVaR = 0

ExpectedReturns ==
    [i \in 1..riskN |->
        FSub(FDiv(riskArgs.paths[i][Len(riskArgs.paths[i])],
                  riskArgs.paths[i][1]),
             SCALE)]

Ascending(s) == \A i \in 1..(Len(s) - 1) : s[i] <= s[i + 1]

Occurrences(s, x) == Cardinality({i \in 1..Len(s) : s[i] = x})

\* t holds the elements of s, each as often as s does
Rearranges(t, s) ==
    /\ Len(t) = Len(s)
    /\ \A i \in 1..Len(s) : Occurrences(t, s[i]) = Occurrences(s, s[i])

\* the ascending rearrangement of the expected returns
SortedReturns ==
    CHOOSE t \in [1..riskN -> {ExpectedReturns[i] : i \in 1..riskN}] :
        Ascending(t) /\ Rearranges(t, ExpectedReturns)

\* C13: with the returns final/initial - 1 sorted ascending and
\* idx = floor(N*(1-confidence)), valueAtRisk = -sorted[idx]*initialValue,
\* conditionalVaR = -(mean of sorted[0..idx-1])*initialValue, worstReturn =
\* sorted[0], bestReturn = sorted[N-1], and worstReturn <= bestReturn.
C13_RiskMetrics ==
    riskDone =>
        /\ riskResult.worstReturn = SortedReturns[1]
        /\ riskResult.bestReturn = SortedReturns[riskN]
        /\ FLe(riskResult.worstReturn, riskResult.bestReturn)
        /\ riskVarIndex < riskN =>
              riskResult.valueAtRisk
                = FMul(FNeg(SortedReturns[riskVarIndex + 1]),
                       riskArgs.initialValue)
        /\ riskVarIndex >= 1 =>
              riskResult.conditionalVaR
                = FMul(FNeg(FDiv(SumSeq(SubSeq(SortedReturns, 1, riskVarIndex)),
                                 Fix(riskVarIndex))),
                       riskArgs.initialValue)

\* three paths given out of order, the index strictly inside the array
C13_Witness ==
    /\ riskDone /\ riskN = 3
    /\ riskVarIndex = 1
    /\ ~Ascending(ExpectedReturns)
    /\ riskResult.worstReturn < riskResult.bestReturn
    /\ riskResult.valueAtRisk # riskResult.conditionalVaR
    /\ riskResult.valueAtRisk # 0

stepPrice_noIto(previousPrice, params, randomNormal) ==
    LET dt == FDiv(params.T, Fix(params.steps))
        drift == FMul(params.mu, dt)
        diffusion == FMul(FMul(params.sigma, FSqrt(dt)), randomNormal)
    IN  FMul(previousPrice, FExp(FAdd(drift, diffusion)))

\* one iteration of generatePath's loop: the price pushed onto the path
stepPrice(previousPrice, params, randomNormal) ==
    LET dt == FDiv(params.T, Fix(params.steps))
        drift == FMul(FSub(params.mu,
                           FMul(FMul(SCALE \div 2, params.sigma), params.sigma)),
                      dt)
        diffusion == FMul(FMul(params.sigma, FSqrt(dt)), randomNormal)
    IN  FMul(previousPrice, FExp(FAdd(drift, diffusion)))

\* the caller's params passed on unchanged
pathParams_keepMu(params) == params

\* { ...params, mu: r }: the params priceOption hands to generatePaths
pathParams(params) == [params EXCEPT !.mu = params.r]

\* generatePath making one iteration more than `steps`
genParams_oneMoreStep ==
    LET params == IF mcEntry = "priceOption" THEN pathParams(mcParams)
                  ELSE mcParams
    IN  [params EXCEPT !.steps = @ + 1]

\* the params generatePath works with
genParams ==
    IF mcEntry = "priceOption" THEN pathParams(mcParams) ELSE mcParams

payoff(type, finalPrice, K) ==
    IF toLowerCase(type) = "call" THEN FMax(0, FSub(finalPrice, K))
    ELSE FMax(0, FSub(K, finalPrice))

payoffsOf(params, simulationPaths) ==
    [i \in 1..Len(simulationPaths) |->
        payoff(params.type, simulationPaths[i][Len(simulationPaths[i])],
               params.K)]

RECURSIVE SumSquares(_, _)
\* payoffs.reduce((sum, payoff) => sum + Math.pow(payoff - meanPayoff, 2), 0)
SumSquares(payoffs, meanPayoff) ==
    IF payoffs = <<>> THEN 0
    ELSE LET d == FSub(payoffs[Len(payoffs)], meanPayoff)
         IN  FAdd(SumSquares(SubSeq(payoffs, 1, Len(payoffs) - 1), meanPayoff),
                  FMul(d, d))

McThrew == [threw |-> TRUE, price |-> 0, lower |-> 0, upper |-> 0,
            standardError |-> 0]

\* priceOption from line 76 on, given the paths generatePaths returned
priceOptionResult(params, simulationPaths) ==
    IF params.type = Undefined /\ simulationPaths # <<>> THEN McThrew
    ELSE
    LET payoffs == payoffsOf(params, simulationPaths)
        nPaths == Fix(params.paths)
        discount == FExp(FNeg(FMul(params.r, params.T)))
        meanPayoff == FDiv(SumSeq(payoffs), nPaths)
        price == FMul(meanPayoff, discount)
        variance == FDiv(SumSquares(payoffs, meanPayoff),
                         FSub(nPaths, Fix(1)))
        standardError == FSqrt(FDiv(variance, nPaths))
        halfWidth == FMul(FMul(19600, standardError), discount)
    IN  [threw |-> FALSE,
         price |-> price,
         lower |-> FSub(price, halfWidth),
         upper |-> FAdd(price, halfWidth),
         standardError |-> FMul(standardError, discount)]

(***************************************************************************)
(* Inputs of the simulation engine                                         *)
(***************************************************************************)
MaxSteps == 2
MaxMcPaths == 2

\* values boxMuller() returns
NormalValues == {-10000, 10000}

PathParameters ==
    [S0 : {100000}, mu : {500, 1000}, sigma : {2000, 4000}, T : {10000},
     steps : 0..MaxSteps, K : {0}, r : {0}, paths : {0}, type : {Undefined}]

PricingParameters ==
    [S0 : {100000}, mu : {500, 1000}, sigma : {2000}, T : {10000},
     steps : 0..MaxSteps, K : {80000, 110000}, r : {0, 500},
     paths : 1..MaxMcPaths, type : {"call", "put", "Call", Undefined}]

NoMcParams ==
    [S0 |-> 0, mu |-> 0, sigma |-> 0, T |-> 0, steps |-> 0, K |-> 0, r |-> 0,
     paths |-> 0, type |-> Undefined]
NoMcResult == [threw |-> FALSE, price |-> 0, lower |-> 0, upper |-> 0,
               standardError |-> 0]

mcIdle ==
    /\ mcEntry = "idle" /\ mcParams = NoMcParams /\ mcPc = "idle"
    /\ path = <<>> /\ draws = <<>> /\ allPaths = <<>> /\ allDraws = <<>>
    /\ mcResult = NoMcResult

\* MonteCarloEngine.generatePath(params) entered: path = [S0]
InitGeneratePath ==
    /\ mcEntry = "generatePath"
    /\ mcParams \in PathParameters
    /\ mcPc = "path"
    /\ path = <<mcParams.S0>> /\ draws = <<>>
    /\ allPaths = <<>> /\ allDraws = <<>>
    /\ mcResult = NoMcResult

\* MonteCarloEngine.priceOption(params) entered: generatePaths' loop starts
\* and calls generatePath for the first time
InitPriceOption ==
    /\ mcEntry = "priceOption"
    /\ mcParams \in PricingParameters
    /\ mcPc = IF mcParams.paths > 0 THEN "path" ELSE "payoff"
    /\ path = IF mcParams.paths > 0 THEN <<mcParams.S0>> ELSE <<>>
    /\ draws = <<>>
    /\ allPaths = <<>> /\ allDraws = <<>>
    /\ mcResult = NoMcResult

InitMC == InitGeneratePath \/ InitPriceOption

\* one iteration of generatePath's loop (i = path.length <= steps)
PathStep ==
    /\ mcPc = "path"
    /\ Len(path) <= genParams.steps
    /\ \E randomNormal \in NormalValues :
          /\ path' = Append(path, stepPrice(path[Len(path)], genParams,
                                            randomNormal))
          /\ draws' = Append(draws, randomNormal)
    /\ UNCHANGED <<mcEntry, mcParams, mcPc, allPaths, allDraws, mcResult>>
    /\ UNCHANGED <<bsVars, riskVars, optVars, pmVars, frVars, bmVars, uiVars>>

\* generatePath, called directly, leaves its loop and returns the path
ReturnPath ==
    /\ mcPc = "path"
    /\ mcEntry = "generatePath"
    /\ Len(path) > genParams.steps
    /\ mcPc' = "done"
    /\ UNCHANGED <<mcEntry, mcParams, path, draws, allPaths, allDraws,
                   mcResult>>
    /\ UNCHANGED <<bsVars, riskVars, optVars, pmVars, frVars, bmVars, uiVars>>

\* generatePath returns into generatePaths' loop: the path is pushed and the
\* loop calls generatePath again or ends
PushPath ==
    /\ mcPc = "path"
    /\ mcEntry = "priceOption"
    /\ Len(path) > genParams.steps
    /\ allPaths' = Append(allPaths, path)
    /\ allDraws' = Append(allDraws, draws)
    /\ IF Len(allPaths) + 1 < genParams.paths
       THEN /\ path' = <<genParams.S0>>
            /\ draws' = <<>>
            /\ mcPc' = "path"
       ELSE /\ path' = <<>>
            /\ draws' = <<>>
            /\ mcPc' = "payoff"
    /\ UNCHANGED <<mcEntry, mcParams, mcResult>>
    /\ UNCHANGED <<bsVars, riskVars, optVars, pmVars, frVars, bmVars, uiVars>>

\* priceOption after generatePaths returned: payoffs, price, interval
PriceOptionFinish ==
    /\ mcPc = "payoff"
    /\ mcResult' = priceOptionResult(mcParams, allPaths)
    /\ mcPc' = "done"
    /\ UNCHANGED <<mcEntry, mcParams, path, draws, allPaths, allDraws>>
    /\ UNCHANGED <<bsVars, riskVars, optVars, pmVars, frVars, bmVars, uiVars>>

(***************************************************************************)
(* Properties of the simulation engine (checked under SpecMC)              *)
(***************************************************************************)
\* the GBM factor exp((mu - sigma^2/2)*dt + sigma*sqrt(dt)*Z), dt = T/steps
GbmFactor(mu, sigma, T, steps, Z) ==
    LET dt == FDiv(T, Fix(steps))
    IN  FExp(FAdd(FMul(FSub(mu, FMul(FMul(SCALE \div 2, sigma), sigma)), dt),
                  FMul(FMul(sigma, FSqrt(dt)), Z)))

\* pth starts at S0 and each element is its predecessor times the GBM factor
\* of the matching draw
IsGbmPath(pth, drw, S0, mu, sigma, T, steps) ==
    /\ Len(pth) >= 1
    /\ Len(drw) = Len(pth) - 1
    /\ pth[1] = S0
    /\ \A i \in 1..Len(pth) : FLt(0, pth[i])
    /\ \A i \in 2..Len(pth) :
          pth[i] = FMul(pth[i - 1], GbmFactor(mu, sigma, T, steps, drw[i - 1]))

\* C9: generatePath returns steps+1 prices, the first S0, all > 0, each the
\* previous one times exp((mu - sigma^2/2)*dt + sigma*sqrt(dt)*Z_i) with one
\* fresh draw Z_i per step.
C9_PricePath ==
    (mcEntry = "generatePath" /\ mcParams.S0 > 0) =>
        /\ IsGbmPath(path, draws, mcParams.S0, mcParams.mu, mcParams.sigma,
                     mcParams.T, mcParams.steps)
        /\ Len(path) <= mcParams.steps + 1
        /\ (mcPc = "done" => Len(path) = mcParams.steps + 1)

C9_Witness ==
    /\ mcEntry = "generatePath" /\ mcPc = "done"
    /\ mcParams.steps = 2 /\ Len(path) = 3
    /\ draws[1] # draws[2]
    /\ path[2] > path[1] /\ path[3] < path[2]

\* C10: priceOption generates exactly `paths` paths with drift mu = r
\* (whatever mu the caller gave), pays max(0, S_T - K) for a call and
\* max(0, K - S_T) for a put on each path's last element, and returns
\* price = (sum of payoffs / paths) * e^(-rT).
ExpectedPayoff(kind, finalPrice, K) ==
    IF kind = "call"
    THEN (IF finalPrice - K > 0 THEN finalPrice - K ELSE 0)
    ELSE (IF K - finalPrice > 0 THEN K - finalPrice ELSE 0)

RECURSIVE PayoffSum(_, _, _)
PayoffSum(kind, pths, K) ==
    IF pths = <<>> THEN 0
    ELSE ExpectedPayoff(kind, Head(pths)[Len(Head(pths))], K)
            + PayoffSum(kind, Tail(pths), K)

C10_PriceOption ==
    (mcEntry = "priceOption" /\ mcPc = "done"
        /\ mcParams.type \in {"call", "put"}) =>
        /\ mcResult.threw = FALSE
        /\ Len(allPaths) = mcParams.paths
        /\ \A k \in 1..Len(allPaths) :
              /\ Len(allPaths[k]) = mcParams.steps + 1
              /\ IsGbmPath(allPaths[k], allDraws[k], mcParams.S0, mcParams.r,
                           mcParams.sigma, mcParams.T, mcParams.steps)
        /\ mcResult.price =
              FMul(FDiv(PayoffSum(mcParams.type, allPaths, mcParams.K),
                        Fix(mcParams.paths)),
                   FExp(FNeg(FMul(mcParams.r, mcParams.T))))

C10_Witness ==
    /\ mcEntry = "priceOption" /\ mcPc = "done"
    /\ mcParams.type = "put" /\ mcParams.mu # mcParams.r /\ mcParams.r # 0
    /\ mcParams.paths = 2 /\ mcParams.steps = 2
    /\ allPaths[1] # allPaths[2]
    /\ mcResult.price > 0

mcPriced == mcEntry = "priceOption" /\ mcPc = "done"
mcKind == toLowerCase(mcParams.type) \in {"call", "put"}
mcDiscount == FExp(FNeg(FMul(mcParams.r, mcParams.T)))

\* the payoffs of the generated paths, in path order
ExpectedPayoffs ==
    [k \in 1..Len(allPaths) |->
        ExpectedPayoff(toLowerCase(mcParams.type),
                       allPaths[k][Len(allPaths[k])], mcParams.K)]

\* sum of squared deviations from the mean divided by n - 1
SampleVariance(xs) ==
    LET mean == FDiv(SumSeq(xs), Fix(Len(xs)))
        squares == [i \in 1..Len(xs) |->
                       FMul(FSub(xs[i], mean), FSub(xs[i], mean))]
    IN  FDiv(SumSeq(squares), Fix(Len(xs) - 1))

\* sqrt(sample variance / n) * e^(-rT)
DiscountedStdErr ==
    FMul(FSqrt(FDiv(SampleVariance(ExpectedPayoffs), Fix(mcParams.paths))),
         mcDiscount)

\* |a - b| is at most two units of the resolution (false when either is NaN)
Near(a, b) == FLe(FAbs(FSub(a, b)), 2)

\* C11: the reported standardError is sqrt(sample variance / paths) * e^(-rT)
\* with the variance's divisor paths - 1; the interval is price -/+ 1.96 times
\* the reported standardError, so lower <= price <= upper, symmetric about
\* price.
C11_ConfidenceInterval ==
    (mcPriced /\ mcKind) =>
        /\ mcResult.standardError = DiscountedStdErr
        /\ Near(mcResult.lower,
                FSub(mcResult.price, FMul(19600, mcResult.standardError)))
        /\ Near(mcResult.upper,
                FAdd(mcResult.price, FMul(19600, mcResult.standardError)))
        /\ FLe(mcResult.lower, mcResult.price)
        /\ FLe(mcResult.price, mcResult.upper)
        /\ FSub(mcResult.price, mcResult.lower)
              = FSub(mcResult.upper, mcResult.price)

\* C12: for paths >= 1, steps >= 1 and kind call or put the result has a
\* finite price >= 0, a finite standardError >= 0 and finite interval
\* bounds, the single-path case included.
C12_ValidResult ==
    (mcPriced /\ mcKind /\ mcParams.paths >= 1 /\ mcParams.steps >= 1
        /\ mcParams.S0 > 0 /\ mcParams.K > 0) =>
        /\ mcResult.threw = FALSE
        /\ IsFinite(mcResult.price) /\ mcResult.price >= 0
        /\ IsFinite(mcResult.standardError) /\ mcResult.standardError >= 0
        /\ IsFinite(mcResult.lower) /\ IsFinite(mcResult.upper)

\* C18: priceOption called with the parameters of the README example, which
\* give no type, completes without an error and returns price and interval.
C18_ReadmeExampleCompletes ==
    (mcPriced /\ mcParams.type = Undefined) =>
        /\ mcResult.threw = FALSE
        /\ mcResult.price # NaN

(***************************************************************************)
(* PortfolioOptimizer.optimizePortfolio                                    *)
(***************************************************************************)
learningRate == 100
iterations == 1000
\* the 0.0001 of the stopping test
returnTolerance == 1

\* generateCovarianceMatrix of the presentation layer: diagonal sigma_i^2,
\* off-diagonal sigma_i * sigma_j * 0.5
generateCovarianceMatrix(volatilities) ==
    LET correlation == SCALE \div 2
    IN  [i \in 1..Len(volatilities) |->
            [j \in 1..Len(volatilities) |->
                IF i = j THEN FMul(volatilities[i], volatilities[i])
                ELSE FMul(FMul(volatilities[i], volatilities[j]), correlation)]]

RECURSIVE DotPrefix(_, _, _)
\* sum over j <= k of a[j] * b[j], accumulated from 0 in index order
DotPrefix(a, b, k) ==
    IF k = 0 THEN 0
    ELSE FAdd(DotPrefix(a, b, k - 1), FMul(a[k], b[k]))

calculateGradients(w, returns, covariance) ==
    [i \in 1..Len(w) |-> DotPrefix(w, covariance[i], Len(w))]

\* weights.map(w => w / sum) with sum = weights.reduce((a, b) => a + b, 0)
normalize(w) ==
    LET sum == SumSeq(w)
    IN  [i \in 1..Len(w) |-> FDiv(w[i], sum)]

\* the projection in the other order: renormalize, then clamp
descentStep_clampLast(w, params) ==
    LET gradients == calculateGradients(w, params.returns, params.covariance)
        stepped == [i \in 1..Len(w) |->
                        FSub(w[i], FMul(learningRate, gradients[i]))]
        summed == IF params.constraints.sumToOne THEN normalize(stepped)
                  ELSE stepped
    IN  IF params.constraints.nonNegative
        THEN [i \in 1..Len(w) |-> FMax(0, summed[i])]
        ELSE summed

\* a step that also pulls every weight by the distance of the realized return
\* from the target
descentStep_towardTarget(w, params) ==
    LET gradients == calculateGradients(w, params.returns, params.covariance)
        gap == FSub(DotPrefix(w, params.returns, Len(w)), params.targetReturn)
        stepped == [i \in 1..Len(w) |->
                        FSub(w[i], FMul(learningRate,
                                        FAdd(gradients[i], gap)))]
        clamped == IF params.constraints.nonNegative
                   THEN [i \in 1..Len(w) |-> FMax(0, stepped[i])]
                   ELSE stepped
    IN  IF params.constraints.sumToOne THEN normalize(clamped) ELSE clamped

\* the body of optimizePortfolio's loop up to the stopping test: the weights
\* after the gradient step and the projection
descentStep(w, params) ==
    LET gradients == calculateGradients(w, params.returns, params.covariance)
        stepped == [i \in 1..Len(w) |->
                        FSub(w[i], FMul(learningRate, gradients[i]))]
        clamped == IF params.constraints.nonNegative
                   THEN [i \in 1..Len(w) |-> FMax(0, stepped[i])]
                   ELSE stepped
    IN  IF params.constraints.sumToOne THEN normalize(clamped) ELSE clamped

\* Math.abs(currentReturn - targetReturn) < 0.0001
targetMet(w, params) ==
    FLt(FAbs(FSub(DotPrefix(w, params.returns, Len(w)), params.targetReturn)),
        returnTolerance)

\* Array(n).fill(1/n)
equalWeights(n) == [i \in 1..n |-> FDiv(SCALE, Fix(n))]

(***************************************************************************)
(* Inputs of the optimizer                                                 *)
(***************************************************************************)
MaxAssets == 2

ReturnValues == {1000, 1500}
VolatilityValues == {2000, 100000}
TargetValues == {1000, 1250}
ConstraintValues == [sumToOne : BOOLEAN, nonNegative : BOOLEAN]

OptimizerInputs ==
    UNION {[returns : [1..n -> ReturnValues],
            covariance : {generateCovarianceMatrix(v) :
                            v \in [1..n -> VolatilityValues]},
            targetReturn : TargetValues,
            constraints : ConstraintValues] : n \in 1..MaxAssets}

NoOptParams ==
    [returns |-> <<>>, covariance |-> <<>>, targetReturn |-> 0,
     constraints |-> [sumToOne |-> FALSE, nonNegative |-> FALSE]]

optIdle ==
    /\ optParams = NoOptParams /\ optPc = "idle" /\ iter = 0
    /\ weights = <<>> /\ prevWeights = <<>>
    /\ weightsRef = 0 /\ allocated = 0

\* an iteration that writes its results into the array it was given
newArraysPerStep_inPlace(constraints) == 0

\* arrays one iteration creates for `weights`: one per weights.map(...)
newArraysPerStep(constraints) ==
    1 + (IF constraints.nonNegative THEN 1 ELSE 0)
      + (IF constraints.sumToOne THEN 1 ELSE 0)

\* optimizePortfolio(params) entered: equal weights in a new array, iter = 0
InitOpt ==
    /\ optParams \in OptimizerInputs
    /\ optPc = "loop"
    /\ iter = 0
    /\ weights = equalWeights(Len(optParams.returns))
    /\ prevWeights = <<>>
    /\ weightsRef = 1 /\ allocated = 1

\* one iteration of optimizePortfolio's loop: gradient step, projection,
\* stopping test, and the loop's own test after iter++
OptStep ==
    /\ optPc = "loop"
    /\ iter < iterations
    /\ weights' = descentStep(weights, optParams)
    /\ prevWeights' = weights
    /\ allocated' = allocated + newArraysPerStep(optParams.constraints)
    /\ weightsRef' = allocated'
    /\ IF targetMet(weights', optParams)
       THEN optPc' = "break" /\ iter' = iter
       ELSE /\ iter' = iter + 1
            /\ optPc' = IF iter + 1 < iterations THEN "loop" ELSE "exhausted"
    /\ UNCHANGED <<optParams, bsVars, riskVars, mcVars, pmVars, frVars, bmVars, uiVars>>

(***************************************************************************)
(* Properties of the optimizer (checked under SpecOpt)                     *)
(***************************************************************************)
optDone == optPc \in {"break", "exhausted"}
optBothConstraints ==
    optParams.constraints.sumToOne /\ optParams.constraints.nonNegative

\* the claims' tolerance 1e-6 absorbs the rounding of the n quotients w/sum;
\* at the model's resolution each quotient is within half a unit
SumTol(w) == Len(w)

Feasible(w) ==
    /\ \A i \in 1..Len(w) : FLe(0, w[i])
    /\ FLe(FAbs(FSub(SumSeq(w), SCALE)), SumTol(w))

\* C1: with constraints {sumToOne, nonNegative} the returned weights sum to 1
\* within the tolerance and are all >= 0, whether the loop stopped early or
\* ran all its iterations, also when a step drives every weight to or below
\* zero before the clamp.
C1_ResultFeasible ==
    (optDone /\ optBothConstraints) => Feasible(weights)

\* sum_i w_i * mu_i
WeightedReturn(w, mu) == SumSeq([i \in 1..Len(w) |-> FMul(w[i], mu[i])])

\* iterations of the loop entered so far, the one that broke included
optIterations == IF optPc = "break" THEN iter + 1 ELSE iter

\* sum_j w_j * C[i][j]
CovarianceRow(w, i) ==
    SumSeq([j \in 1..Len(w) |-> FMul(w[j], optParams.covariance[i][j])])

\* every element of k divided by total
DividedBy(k, total) == [i \in 1..Len(k) |-> FDiv(k[i], total)]

\* m with its negative elements replaced by 0 and then divided by its sum,
\* each where the constraints ask for it
Projected(m) ==
    LET kept == [i \in 1..Len(m) |->
                    IF optParams.constraints.nonNegative /\ FLt(m[i], 0)
                    THEN 0 ELSE m[i]]
    IN  IF optParams.constraints.sumToOne
        THEN DividedBy(kept, SumSeq(kept))
        ELSE kept

\* w - 0.01 * gradient, projected
ExpectedStep(w) ==
    Projected([i \in 1..Len(w) |->
                  FSub(w[i], FMul(SCALE \div 100, CovarianceRow(w, i)))])

\* the realized return of w is within 1e-4 of the target
ExpectedStop(w) ==
    LET gap == FSub(WeightedReturn(w, optParams.returns),
                    optParams.targetReturn)
    IN  gap # NaN /\ gap < SCALE \div 10000 /\ gap > -(SCALE \div 10000)

\* C20: optimizePortfolio starts from equal weights 1/n without testing
\* them; every iteration is gradient step (rate 0.01), clamp, renormalize,
\* then the stopping test; it returns the weights of the first iteration
\* whose realized return is within 1e-4 of the target, or those after
\* iteration 1000; between 1 and 1000 iterations are performed.
C20_DescentLoop ==
    optPc # "idle" =>
        /\ Len(weights) = Len(optParams.returns)
        /\ optIterations <= 1000
        /\ optPc = "loop" => iter < 1000
        /\ optPc = "exhausted" => iter = 1000
        /\ IF optIterations = 0
           THEN /\ optPc = "loop"
                /\ \A i \in 1..Len(weights) :
                      weights[i] = FDiv(SCALE, Fix(Len(optParams.returns)))
           ELSE /\ weights = ExpectedStep(prevWeights)
                /\ (optPc = "break") = ExpectedStop(weights)

\* a run that stopped on the target after more than one iteration
C20_Witness ==
    /\ optPc = "break" /\ iter >= 1
    /\ Len(weights) = 2
    /\ weights # prevWeights

(***************************************************************************)
(* PortfolioOptimizer.calculatePortfolioMetrics, calculateSharpeRatio      *)
(***************************************************************************)
RECURSIVE VarianceTerms(_, _, _)
\* portfolioVariance after k passes of the inner loop's body, i outer, j inner
VarianceTerms(w, covariance, k) ==
    IF k = 0 THEN 0
    ELSE LET i == ((k - 1) \div Len(w)) + 1
             j == ((k - 1) % Len(w)) + 1
         IN  FAdd(VarianceTerms(w, covariance, k - 1),
                  FMul(FMul(w[i], w[j]), covariance[i][j]))

\* the variance summed over the diagonal alone
calculatePortfolioMetrics_diagonal(params) ==
    LET w == params.weights
        portfolioVariance ==
            SumSeq([i \in 1..Len(w) |->
                       FMul(FMul(w[i], w[i]), params.covariance[i][i])])
    IN  [return |-> DotPrefix(w, params.returns, Len(w)),
         risk |-> FSqrt(portfolioVariance),
         variance |-> portfolioVariance]

calculatePortfolioMetrics(params) ==
    LET w == params.weights
        portfolioVariance == VarianceTerms(w, params.covariance,
                                           Len(w) * Len(w))
    IN  [return |-> DotPrefix(w, params.returns, Len(w)),
         risk |-> FSqrt(portfolioVariance),
         variance |-> portfolioVariance]

calculateSharpeRatio(portfolioReturn, portfolioRisk, riskFreeRate) ==
    FDiv(FSub(portfolioReturn, riskFreeRate), portfolioRisk)

\* weights handed to calculatePortfolioMetrics
WeightValues == {-2500, 0, 2500, 5000, 10000}

MetricsInputs ==
    UNION {[weights : [1..n -> WeightValues],
            returns : [1..n -> ReturnValues],
            covariance : {generateCovarianceMatrix(v) :
                            v \in [1..n -> VolatilityValues]}] :
           n \in 1..MaxAssets}

NoMetricsArgs == [weights |-> <<>>, returns |-> <<>>, covariance |-> <<>>]
NoMetrics == [return |-> 0, risk |-> 0, variance |-> 0]

pmIdle == pmArgs = NoMetricsArgs /\ pmPc = "idle" /\ pmResult = NoMetrics

InitMetrics ==
    /\ pmArgs \in MetricsInputs
    /\ pmPc = "ready"
    /\ pmResult = NoMetrics

\* one call of PortfolioOptimizer.calculatePortfolioMetrics
CalculatePortfolioMetrics ==
    /\ pmPc = "ready"
    /\ pmResult' = calculatePortfolioMetrics(pmArgs)
    /\ pmPc' = "done"
    /\ UNCHANGED <<pmArgs, bsVars, riskVars, mcVars, optVars, frVars, bmVars, uiVars>>

\* sum_i sum_j w_i * w_j * C[i][j]
DoubleSum(w, C) ==
    SumSeq([i \in 1..Len(w) |->
               SumSeq([j \in 1..Len(w) |-> FMul(FMul(w[i], w[j]), C[i][j])])])

\* r is the square root of v, to the rounding of the last digit
IsSqrt(r, v) ==
    IF v = NaN \/ FLt(v, 0) THEN r = NaN
    ELSE IF v = PosInf THEN r = PosInf
    ELSE /\ FLe(0, r)
         /\ FLe(FAbs(FSub(FMul(r, r), v)), 2 * (r \div SCALE) + 2)

\* C14: calculatePortfolioMetrics returns return = sum_i w_i*mu_i, variance =
\* the full double sum of w_i*w_j*C[i][j], off-diagonal terms included, and
\* risk = sqrt(variance).
C14_PortfolioMetrics ==
    pmPc = "done" =>
        /\ pmResult.return = WeightedReturn(pmArgs.weights, pmArgs.returns)
        /\ pmResult.variance = DoubleSum(pmArgs.weights, pmArgs.covariance)
        /\ IsSqrt(pmResult.risk, pmResult.variance)

\* two assets, both held, the cross terms changing the variance
C14_Witness ==
    /\ pmPc = "done" /\ Len(pmArgs.weights) = 2
    /\ pmArgs.weights[1] > 0 /\ pmArgs.weights[2] > 0
    /\ pmArgs.returns[1] # pmArgs.returns[2]
    /\ pmResult.variance >
          FMul(FMul(pmArgs.weights[1], pmArgs.weights[1]),
               pmArgs.covariance[1][1])
          + FMul(FMul(pmArgs.weights[2], pmArgs.weights[2]),
                 pmArgs.covariance[2][2])
    /\ pmResult.risk > 0

(***************************************************************************)
(* PortfolioOptimizer.generateEfficientFrontier                            *)
(***************************************************************************)
\* Math.min(...returns), Math.max(...returns) of a non-empty array
minOf(returns) ==
    CHOOSE x \in {returns[i] : i \in 1..Len(returns)} :
        \A i \in 1..Len(returns) : x <= returns[i]
maxOf(returns) ==
    CHOOSE x \in {returns[i] : i \in 1..Len(returns)} :
        \A i \in 1..Len(returns) : x >= returns[i]

\* the step taken as the range divided by the number of points
frontierTarget_overPoints(params, i) ==
    LET minReturn == minOf(params.returns)
        maxReturn == maxOf(params.returns)
        returnStep == FDiv(FSub(maxReturn, minReturn), Fix(params.points))
    IN  FAdd(minReturn, FMul(Fix(i), returnStep))

\* targetReturn of the loop's iteration i: minReturn + i * returnStep
frontierTarget(params, i) ==
    LET minReturn == minOf(params.returns)
        maxReturn == maxOf(params.returns)
        returnStep == FDiv(FSub(maxReturn, minReturn), Fix(params.points - 1))
    IN  FAdd(minReturn, FMul(Fix(i), returnStep))

\* the params object iteration i hands to optimizePortfolio
frontierCall(params, i) ==
    [returns |-> params.returns,
     covariance |-> params.covariance,
     targetReturn |-> frontierTarget(params, i),
     constraints |-> [sumToOne |-> TRUE, nonNegative |-> TRUE]]

\* the object pushed for the weights w, held in the array of identity ref
frontierPoint(w, ref, params) ==
    LET metrics == calculatePortfolioMetrics(
                       [weights |-> w, returns |-> params.returns,
                        covariance |-> params.covariance])
    IN  [weights |-> w,
         weightsRef |-> ref,
         return |-> metrics.return,
         risk |-> metrics.risk,
         sharpe |-> calculateSharpeRatio(metrics.return, metrics.risk,
                                         params.riskFreeRate)]

MaxPoints == 3

FrontierReturns == {<<1000, 1500>>, <<1500, 1100>>, <<1200, 1200>>}
FrontierCovariances ==
    {generateCovarianceMatrix(<<2000, 2000>>),
     generateCovarianceMatrix(<<2000, 5000>>),
     generateCovarianceMatrix(<<100000, 100000>>),
     <<<<400, 1000>>, <<1000, 2500>>>>}

FrontierInputs ==
    [returns : FrontierReturns, covariance : FrontierCovariances,
     riskFreeRate : {300}, points : 1..MaxPoints]

NoFrontierParams ==
    [returns |-> <<>>, covariance |-> <<>>, riskFreeRate |-> 0, points |-> 0]

frIdle == frParams = NoFrontierParams /\ frPc = "idle" /\ frontier = <<>>

\* generateEfficientFrontier(params) entered with points >= 1: frontier = [],
\* i = 0 and the first call of optimizePortfolio entered
InitFrontier ==
    /\ frParams \in FrontierInputs
    /\ frPc = "optimize"
    /\ frontier = <<>>
    /\ optParams = frontierCall(frParams, 0)
    /\ optPc = "loop"
    /\ iter = 0
    /\ weights = equalWeights(Len(optParams.returns))
    /\ prevWeights = <<>>
    /\ weightsRef = 1 /\ allocated = 1

\* optimizePortfolio returned: metrics, Sharpe ratio and frontier.push(...)
FrontierPush ==
    /\ frPc = "optimize"
    /\ optPc \in {"break", "exhausted"}
    /\ frontier' = Append(frontier, frontierPoint(weights, weightsRef, frParams))
    /\ frPc' = "pushed"
    /\ UNCHANGED <<frParams, bsVars, riskVars, mcVars, optVars, pmVars,
                   bmVars, uiVars>>

\* i++ and the loop's test: the next call of optimizePortfolio is entered,
\* or the frontier is returned
FrontierNext ==
    /\ frPc = "pushed"
    /\ IF Len(frontier) < frParams.points
       THEN /\ frPc' = "optimize"
            /\ optParams' = frontierCall(frParams, Len(frontier))
            /\ optPc' = "loop"
            /\ iter' = 0
            /\ weights' = equalWeights(Len(frParams.returns))
            /\ prevWeights' = <<>>
            /\ allocated' = allocated + 1
            /\ weightsRef' = allocated'
       ELSE /\ frPc' = "done"
            /\ UNCHANGED optVars
    /\ UNCHANGED <<frParams, frontier, bsVars, riskVars, mcVars, pmVars,
                   bmVars, uiVars>>

(***************************************************************************)
(* Properties of generateEfficientFrontier (checked under SpecFrontier)    *)
(***************************************************************************)
frReturned == frPc = "done"

\* min(returns) + i * (max(returns) - min(returns)) / (points - 1)
ExpectedTarget(i) ==
    LET values == {frParams.returns[k] : k \in 1..Len(frParams.returns)}
        lowest == CHOOSE x \in values : ~\E y \in values : y < x
        highest == CHOOSE x \in values : ~\E y \in values : y > x
    IN  FAdd(lowest,
             FDiv(FMul(Fix(i), FSub(highest, lowest)),
                  Fix(frParams.points - 1)))

\* the point pushed for target number i holds the weights w of the call made
\* with both constraints and that target, and the metrics of those weights
IsFrontierPoint(point, w) ==
    /\ point.weights = w
    /\ point.return = WeightedReturn(w, frParams.returns)
    /\ IsSqrt(point.risk, DoubleSum(w, frParams.covariance))
    /\ point.sharpe
          = FDiv(FSub(point.return, frParams.riskFreeRate), point.risk)

\* C15: for points >= 2 the frontier holds exactly `points` points in
\* ascending target order; point i comes from one optimizePortfolio call
\* with target min + i*(max-min)/(points-1) (first min, last max) and both
\* constraints set, and carries those weights, return and risk from
\* calculatePortfolioMetrics on them and sharpe = (return-riskFreeRate)/risk.
C15_Frontier ==
    (frPc # "idle" /\ frParams.points >= 2) =>
        /\ Len(frontier) <= frParams.points
        /\ frReturned => Len(frontier) = frParams.points
        /\ ExpectedTarget(0) = minOf(frParams.returns)
        /\ Near(ExpectedTarget(frParams.points - 1), maxOf(frParams.returns))
        /\ \A i \in 1..(frParams.points - 1) :
              ExpectedTarget(i - 1) <= ExpectedTarget(i)
        /\ frPc = "optimize" =>
              /\ optParams.returns = frParams.returns
              /\ optParams.covariance = frParams.covariance
              /\ optParams.constraints.sumToOne
              /\ optParams.constraints.nonNegative
              /\ Near(optParams.targetReturn, ExpectedTarget(Len(frontier)))
        /\ frPc = "pushed" =>
              /\ optDone
              /\ Near(optParams.targetReturn,
                      ExpectedTarget(Len(frontier) - 1))
              /\ frontier[Len(frontier)].weights = weights
        /\ \A k \in 1..Len(frontier) :
              IsFrontierPoint(frontier[k], frontier[k].weights)

\* three points returned, the middle one stopped on its target with weights
\* of its own
C15_Witness ==
    /\ frReturned /\ frParams.points = 3 /\ Len(frontier) = 3
    /\ frParams.returns[1] # frParams.returns[2]
    /\ frontier[2].weights # frontier[1].weights
    /\ frontier[2].weights # frontier[3].weights
    /\ Near(frontier[2].return, ExpectedTarget(1))
    /\ frontier[2].risk > 0

\* point m has the least risk of the frontier
IsMinRisk(m) == \A k \in 1..Len(frontier) : FLe(frontier[m].risk, frontier[k].risk)

\* risk does not decrease from point to point among the points whose target
\* lies above that of point m
MonotoneAbove(m) ==
    \A i, j \in 1..Len(frontier) :
        (i < j /\ FLt(ExpectedTarget(m - 1), ExpectedTarget(i - 1))) =>
            FLe(frontier[i].risk, frontier[j].risk)

\* C16: in the returned frontier, among the points whose target return lies
\* above that of the minimum-risk point, risk is non-decreasing with the
\* target (where several points share the least risk, for one of them).
C16_RiskMonotone ==
    (frReturned /\ frParams.points >= 2) =>
        \E m \in 1..Len(frontier) : IsMinRisk(m) /\ MonotoneAbove(m)

(***************************************************************************)
(* The target and the iterates (checked under SpecFrontier)                *)
(***************************************************************************)
\* iterations made by the call that produced point i: its arrays are numbered
\* from the one after the previous point's, one on entry and three a step
pointIterations(i) ==
    (frontier[i].weightsRef
        - (IF i = 1 THEN 0 ELSE frontier[i - 1].weightsRef) - 1) \div 3

\* targets and expected returns other calls could have been made with
OtherTargets == {0, 1500, NaN}
OtherReturns == {<<0, 0>>, <<1500, 1100>>}

frEqualReturns ==
    \A i, j \in 1..Len(frParams.returns) :
        frParams.returns[i] = frParams.returns[j]

\* C23: when all expected returns are equal and points >= 2, every target
\* equals that common return, every optimizePortfolio call stops after
\* exactly one descent iteration, and all points carry identical weights,
\* return, risk and sharpe.
C23_EqualReturns ==
    (frPc # "idle" /\ frParams.points >= 2 /\ frEqualReturns) =>
        /\ optParams.targetReturn = frParams.returns[1]
        /\ optIterations <= 1
        /\ optDone => (optPc = "break" /\ optIterations = 1)
        /\ frReturned => Len(frontier) = frParams.points
        /\ \A i, j \in 1..Len(frontier) :
              /\ frontier[i].weights = frontier[j].weights
              /\ frontier[i].return = frontier[j].return
              /\ frontier[i].risk = frontier[j].risk
              /\ frontier[i].sharpe = frontier[j].sharpe

(***************************************************************************)
(* Arguments and array identities (checked under SpecFrames)               *)
(***************************************************************************)
\* no two points of the frontier hold the same weights array
PointsApart ==
    \A i, j \in 1..Len(frontier) :
        i # j => frontier[i].weightsRef # frontier[j].weightsRef

\* the arrays the callers handed over hold after the step what they held
\* before it
ArgumentsKept ==
    /\ riskArgs' = riskArgs
    /\ pmArgs' = pmArgs
    /\ frParams' = frParams
    /\ optParams'.returns = optParams.returns
    /\ optParams'.covariance = optParams.covariance

\* a descent step leaves `weights` referring to an array that did not exist
\* before the step, and the array it referred to holds what it held
FreshWeights ==
    optPc = "loop" =>
        /\ weightsRef' > allocated
        /\ weightsRef' <= allocated'
        /\ prevWeights' = weights

frCalls == IF frPc = "optimize" THEN Len(frontier) + 1 ELSE Len(frontier)

\* descent iterations of all those calls together: every call creates one
\* array on entry and every iteration three more
frIterations == (allocated - frCalls) \div 3

\* C19: generatePath ends after exactly `steps` iterations, generatePaths
\* after `paths` path generations, optimizePortfolio after at most 1000
\* iterations and generateEfficientFrontier after exactly `points` calls of
\* it (at most 1000*points iterations in total); each of them ends.
C19_Terminates ==
    /\ [](mcEntry = "generatePath" =>
            /\ Len(draws) <= mcParams.steps
            /\ mcPc = "done" => Len(draws) = mcParams.steps)
    /\ [](mcEntry = "priceOption" =>
            /\ Len(allPaths) <= mcParams.paths
            /\ \A k \in 1..Len(allDraws) : Len(allDraws[k]) = mcParams.steps
            /\ mcPc \in {"payoff", "done"} => Len(allPaths) = mcParams.paths)
    /\ [](frPc # "idle" =>
            /\ optIterations <= 1000
            /\ frCalls <= frParams.points
            /\ frIterations <= 1000 * frCalls
            /\ frReturned =>
                  frCalls = frParams.points /\ Len(frontier) = frParams.points)
    /\ (mcEntry # "idle" => <>(mcPc = "done"))
    /\ [](optPc = "loop" => <>optDone)
    /\ (frPc # "idle" => <>frReturned)

\* a frontier returned after a call that used all 1000 iterations and a call
\* that stopped early
C19_Witness ==
    /\ frReturned /\ frParams.points = 3
    /\ frIterations > 1000 /\ frIterations < 3000
    /\ optPc = "break"

(***************************************************************************)
(* MonteCarloEngine.boxMuller                                              *)
(***************************************************************************)
\* Math.PI and Number.EPSILON at the model's resolution
Pi == 31416
Epsilon == 0

RECURSIVE CosSeries(_, _, _, _)
\* sum of the Taylor terms of cos from term number k on;
\* term = (-1)^(k-1) * x^(2k-2) / (2k-2)!, x2 = x^2
CosSeries(x2, term, k, n) ==
    IF k > n \/ term = 0 THEN 0
    ELSE term + CosSeries(x2,
                          -DivFix(MulFix(term, x2), Fix((2 * k - 1) * (2 * k))),
                          k + 1, n)

\* cos(x): x reduced to 0..pi/2 by the period and the symmetries of cos
CosFix(x) ==
    LET r == AbsInt(x) % (2 * Pi)
        a == IF r > Pi THEN 2 * Pi - r ELSE r
    IN  IF 2 * a > Pi
        THEN -CosSeries(MulFix(Pi - a, Pi - a), SCALE, 1, 10)
        ELSE CosSeries(MulFix(a, a), SCALE, 1, 10)

FCos(x) == IF IsFinite(x) THEN CosFix(x) ELSE NaN

\* the loop test with < in place of <=
retry_strict(u) == FLt(u, Epsilon)

\* while (u1 <= Number.EPSILON)
retry(u) == FLe(u, Epsilon)

\* Math.sqrt(-2.0 * Math.log(u1)) * Math.cos(2.0 * Math.PI * u2)
boxMullerZ0(a, b) ==
    FMul(FSqrt(FMul(-2 * SCALE, FLog(a))),
         FCos(FMul(FMul(2 * SCALE, Pi), b)))

\* values Math.random() returns: 0 <= u < 1
UniformValues == {0, 1, 2500, 5000, 9999}

MaxAttempts == 3

bmIdle ==
    /\ bmPc = "idle" /\ u1 = Undefined /\ u2 = Undefined
    /\ randomCalls = 0 /\ attempts = 0 /\ logTaken = <<>> /\ z0 = Undefined

\* boxMuller() entered: let u1, u2
InitBoxMuller ==
    /\ bmPc = "draw" /\ u1 = Undefined /\ u2 = Undefined
    /\ randomCalls = 0 /\ attempts = 0 /\ logTaken = <<>> /\ z0 = Undefined

\* the body of the do-while loop: u1 = Math.random(); u2 = Math.random()
BoxMullerDraw ==
    /\ bmPc = "draw"
    /\ attempts < MaxAttempts
    /\ \E a \in UniformValues, b \in UniformValues : u1' = a /\ u2' = b
    /\ randomCalls' = randomCalls + 2
    /\ attempts' = attempts + 1
    /\ bmPc' = "test"
    /\ UNCHANGED <<logTaken, z0>>
    /\ UNCHANGED <<bsVars, riskVars, mcVars, optVars, pmVars, frVars, uiVars>>

\* the loop's test and, when it fails, z0 and the return
BoxMullerTest ==
    /\ bmPc = "test"
    /\ IF retry(u1)
       THEN /\ bmPc' = "draw"
            /\ UNCHANGED <<logTaken, z0>>
       ELSE /\ bmPc' = "done"
            /\ logTaken' = Append(logTaken, u1)
            /\ z0' = boxMullerZ0(u1, u2)
    /\ UNCHANGED <<u1, u2, randomCalls, attempts>>
    /\ UNCHANGED <<bsVars, riskVars, mcVars, optVars, pmVars, frVars, uiVars>>

(***************************************************************************)
(* Properties of boxMuller (checked under SpecBoxMuller)                   *)
(***************************************************************************)
\* C22: boxMuller draws two uniforms per attempt and repeats the attempt,
\* redrawing both, while the first draw is <= Number.EPSILON; the logarithm
\* is taken only of a first draw > Number.EPSILON; the loop exits on the
\* first attempt with such a draw, and once such a draw has occurred the
\* call ends with a finite value.
C22_BoxMuller ==
    /\ [](/\ randomCalls = 2 * attempts
          /\ \A k \in 1..Len(logTaken) : FGt(logTaken[k], Epsilon)
          /\ (bmPc = "draw" /\ attempts > 0) => FLe(u1, Epsilon)
          /\ bmPc = "done" =>
                /\ FGt(u1, Epsilon) /\ logTaken = <<u1>>
                /\ IsFinite(z0))
    /\ [][/\ (bmPc = "test" /\ FGt(u1, Epsilon)) => bmPc' = "done"
          /\ (bmPc = "test" /\ FLe(u1, Epsilon)) =>
                bmPc' = "draw" /\ logTaken' = logTaken
          /\ bmPc = "draw" =>
                randomCalls' = randomCalls + 2 /\ attempts' = attempts + 1]_vars
    /\ ((bmPc = "test" /\ FGt(u1, Epsilon)) ~> (bmPc = "done" /\ IsFinite(z0)))

\* returned on the second attempt, after a first draw of 0 was rejected
C22_Witness ==
    /\ bmPc = "done" /\ attempts = 2 /\ randomCalls = 4
    /\ IsFinite(z0) /\ z0 # 0

(***************************************************************************)
(* The Calculate button of the presentation layer                          *)
(***************************************************************************)
\* the digit of n at the place of value p
Digit(n, p) ==
    <<"0", "1", "2", "3", "4", "5", "6", "7", "8", "9">>[((n \div p) % 10) + 1]

RECURSIVE Digits(_)
\* the decimal digits of the natural number n
Digits(n) == IF n < 10 THEN Digit(n, 1) ELSE Digits(n \div 10) \o Digit(n, 1)

\* Number.prototype.toFixed(4)
toFixed4(x) ==
    IF x = NaN THEN "NaN"
    ELSE IF x = PosInf THEN "Infinity"
    ELSE IF x = NegInf THEN "-Infinity"
    ELSE (IF x < 0 THEN "-" ELSE "")
            \o Digits(AbsInt(x) \div SCALE) \o "."
            \o Digit(AbsInt(x), 1000) \o Digit(AbsInt(x), 100)
            \o Digit(AbsInt(x), 10) \o Digit(AbsInt(x), 1)

\* what parseFloat reads from the input fields (NaN from an empty field) and
\* the value of the option-type select
ClickInputs ==
    [spotPrice : SpotValues \cup {NaN}, strikePrice : StrikeValues,
     timeToExpiry : {0, 10000}, volatility : {0, 200000},
     riskFreeRate : {50000}, optionType : {"call", "put"}]

\* the params object the handler builds
clickParams(inputs) ==
    [S |-> inputs.spotPrice, K |-> inputs.strikePrice,
     T |-> inputs.timeToExpiry,
     v |-> FDiv(inputs.volatility, Fix(100)),
     r |-> FDiv(inputs.riskFreeRate, Fix(100)),
     type |-> inputs.optionType]

\* the module declares no updateSensitivityCharts and imports none: the call
\* of line 53 ends in a ReferenceError
updateSensitivityChartsThrows == TRUE

NoInputs ==
    [spotPrice |-> 0, strikePrice |-> 0, timeToExpiry |-> 0, volatility |-> 0,
     riskFreeRate |-> 0, optionType |-> Undefined]
NoFields ==
    [price |-> "", delta |-> "", gamma |-> "", vega |-> "", theta |-> "",
     rho |-> ""]

\* the textContent written from a result
resultFields(result) ==
    [price |-> toFixed4(result.price), delta |-> toFixed4(result.delta),
     gamma |-> toFixed4(result.gamma), vega |-> toFixed4(result.vega),
     theta |-> toFixed4(result.theta), rho |-> toFixed4(result.rho)]

uiIdle ==
    /\ uiInputs = NoInputs /\ uiPc = "idle" /\ uiFields = NoFields
    /\ uiCaught = FALSE /\ uiAlerts = <<>> /\ uiResult = Threw

\* the page with its fields filled in, before the click
InitClick ==
    /\ uiInputs \in ClickInputs /\ uiPc = "ready" /\ uiFields = NoFields
    /\ uiCaught = FALSE /\ uiAlerts = <<>> /\ uiResult = Threw

\* one click on Calculate: params, the try block, the catch block
ClickCalculate ==
    /\ uiPc = "ready"
    /\ uiResult' = calculate(clickParams(uiInputs))
    /\ uiFields' = IF uiResult'.threw THEN uiFields
                   ELSE resultFields(uiResult')
    /\ uiCaught' = (uiResult'.threw \/ updateSensitivityChartsThrows)
    /\ uiAlerts' = IF uiCaught'
                   THEN Append(uiAlerts,
                               "Please check your inputs and try again.")
                   ELSE uiAlerts
    /\ uiPc' = "done"
    /\ UNCHANGED <<uiInputs, bsVars, riskVars, mcVars, optVars, pmVars,
                   frVars, bmVars>>

(***************************************************************************)
(* Properties of the Calculate button (checked under SpecClick)            *)
(***************************************************************************)
\* BlackScholes.calculate returns for the params of this click
clickSucceeds == ~uiResult.threw

\* C26: a click whose BlackScholes.calculate call succeeds writes the six
\* result fields, each formatted to 4 decimals, and completes without
\* reaching the catch branch; the alert is shown only when the calculation
\* itself fails.
C26_ClickCompletes ==
    (uiPc = "done" /\ clickSucceeds) =>
        /\ uiResult = calculate(clickParams(uiInputs))
        /\ uiFields = resultFields(uiResult)
        /\ ~uiCaught
        /\ uiAlerts = <<>>

(***************************************************************************)
(* The option kind (checked under SpecBS)                                  *)
(***************************************************************************)
\* 'call' in any letter case, written out
isCallString(type) == type \in {"call", "Call", "CALL"}

\* the kind the type string stands for
kindOf(type) == IF isCallString(type) THEN "call" ELSE "put"

\* C25: the option kind is decided by a case-insensitive comparison with
\* 'call' on every path of BlackScholes.calculate (price, delta, rho and
\* theta), in calculateExpired, in calculateZeroVol and in the payoff of
\* MonteCarloEngine.priceOption: 'call' in any letter case gives the call
\* results, every other string the put results, and no result mixes call
\* and put formulas.
C25_KindUniform ==
    (bsDone /\ bsParams.type # Undefined) =>
        LET kind == kindOf(bsParams.type)
            asKind == [bsParams EXCEPT !.type = kind]
        IN  /\ ~bsResult.threw
            /\ bsResult = calculate(asKind)
            /\ calculateExpired(bsParams) = calculateExpired(asKind)
            /\ calculateZeroVol(bsParams) = calculateZeroVol(asKind)
            /\ payoff(bsParams.type, bsParams.S, bsParams.K)
                  = Intrinsic(kind, bsParams.S, bsParams.K)
            /\ kind = "call" =>
                  /\ FLe(0, bsResult.delta) /\ FLe(0, bsResult.rho)
                  /\ bsExpiredPath =>
                        bsResult.price = Intrinsic("call", bsParams.S,
                                                   bsParams.K)
            /\ kind = "put" =>
                  /\ FLe(bsResult.delta, 0) /\ FLe(bsResult.rho, 0)
                  /\ bsExpiredPath =>
                        bsResult.price = Intrinsic("put", bsParams.S,
                                                   bsParams.K)

\* 'Call' priced by the general formula as a call, where the put differs
C25_Witness ==
    /\ bsDone /\ bsParams.type = "Call" /\ bsGeneralPath
    /\ bsResult.delta > 0 /\ bsResult.rho > 0
    /\ bsResult # calculate([bsParams EXCEPT !.type = "put"])
    /\ payoff("Call", bsParams.S, bsParams.K) > 0

(***************************************************************************)
(* Specifications                                                          *)
(***************************************************************************)
\* the pricing engine alone
StartBS == InitBS /\ riskIdle /\ mcIdle /\ optIdle /\ pmIdle /\ frIdle /\ bmIdle /\ uiIdle
NextBS == Calculate
SpecBS == StartBS /\ [][NextBS]_vars

\* calculateRiskMetrics alone
StartRisk ==
    InitRisk /\ bsIdle /\ mcIdle /\ optIdle /\ pmIdle /\ frIdle /\ bmIdle /\ uiIdle
NextRisk == CalculateRiskMetrics
SpecRisk == StartRisk /\ [][NextRisk]_vars

\* generatePath and priceOption alone
StartMC == InitMC /\ bsIdle /\ riskIdle /\ optIdle /\ pmIdle /\ frIdle /\ bmIdle /\ uiIdle
NextMC == PathStep \/ ReturnPath \/ PushPath \/ PriceOptionFinish
SpecMC == StartMC /\ [][NextMC]_vars

\* optimizePortfolio alone
StartOpt == InitOpt /\ bsIdle /\ riskIdle /\ mcIdle /\ pmIdle /\ frIdle /\ bmIdle /\ uiIdle
NextOpt == OptStep
SpecOpt == StartOpt /\ [][NextOpt]_vars

\* calculatePortfolioMetrics alone
StartMetrics ==
    InitMetrics /\ bsIdle /\ riskIdle /\ mcIdle /\ optIdle /\ frIdle /\ bmIdle /\ uiIdle
NextMetrics == CalculatePortfolioMetrics
SpecMetrics == StartMetrics /\ [][NextMetrics]_vars

\* generateEfficientFrontier with the calls it makes
StartFrontier == InitFrontier /\ bsIdle /\ riskIdle /\ mcIdle /\ pmIdle /\ bmIdle /\ uiIdle
NextFrontier == OptStep \/ FrontierPush \/ FrontierNext
SpecFrontier == StartFrontier /\ [][NextFrontier]_vars

\* the operations that receive arrays from their caller
SpecFrames ==
    /\ StartRisk \/ StartMetrics \/ StartFrontier
    /\ [][NextRisk \/ NextMetrics \/ NextFrontier]_vars

\* the loops of the simulation engine and of the optimizer. The code runs on
\* one thread and nothing suspends it, so a loop whose test holds makes its
\* next iteration and a call that returned is followed by the statement after
\* it. Each condition names the step by its guard and its effect on the
\* loop's own counter; within NextLoops that step is the whole action.
LoopFairness ==
    /\ WF_draws(/\ mcPc = "path" /\ Len(path) <= genParams.steps
                /\ \E randomNormal \in NormalValues :
                      draws' = Append(draws, randomNormal))
    /\ WF_mcPc(/\ mcPc = "path" /\ mcEntry = "generatePath"
               /\ Len(path) > genParams.steps
               /\ mcPc' = "done")
    /\ WF_allDraws(/\ mcPc = "path" /\ mcEntry = "priceOption"
                   /\ Len(path) > genParams.steps
                   /\ allDraws' = Append(allDraws, draws))
    /\ WF_mcPc(mcPc = "payoff" /\ mcPc' = "done")
    /\ WF_allocated(/\ optPc = "loop" /\ iter < iterations
                    /\ allocated'
                          = allocated + newArraysPerStep(optParams.constraints))
    /\ WF_frPc(/\ frPc = "optimize" /\ optPc \in {"break", "exhausted"}
               /\ frPc' = "pushed")
    /\ WF_frPc(/\ frPc = "pushed"
               /\ frPc' = IF Len(frontier) < frParams.points
                          THEN "optimize" ELSE "done")

StartLoops == StartMC \/ StartFrontier
NextLoops == NextMC \/ NextFrontier
SpecLoops == StartLoops /\ [][NextLoops]_vars /\ LoopFairness

\* boxMuller alone; its loop runs on one thread that nothing suspends, so
\* the body is followed by the test and the test by the body or the return
StartBoxMuller ==
    InitBoxMuller /\ bsIdle /\ riskIdle /\ mcIdle /\ optIdle /\ pmIdle
        /\ frIdle /\ uiIdle
NextBoxMuller == BoxMullerDraw \/ BoxMullerTest
SpecBoxMuller ==
    /\ StartBoxMuller /\ [][NextBoxMuller]_vars
    /\ WF_attempts(/\ bmPc = "draw" /\ attempts < MaxAttempts
                   /\ attempts' = attempts + 1)
    /\ WF_bmPc(/\ bmPc = "test"
               /\ bmPc' = IF retry(u1) THEN "draw" ELSE "done")

\* one click on the Calculate button
StartClick ==
    InitClick /\ bsIdle /\ riskIdle /\ mcIdle /\ optIdle /\ pmIdle
        /\ frIdle /\ bmIdle
NextClick == ClickCalculate
SpecClick == StartClick /\ [][NextClick]_vars

\* one use of any one component
Init ==
    \/ StartBS \/ StartRisk \/ StartMC \/ StartOpt
    \/ StartMetrics \/ StartFrontier \/ StartBoxMuller \/ StartClick

Next ==
    \/ Calculate
    \/ CalculateRiskMetrics
    \/ PathStep
    \/ ReturnPath
    \/ PushPath
    \/ PriceOptionFinish
    \/ OptStep
    \/ CalculatePortfolioMetrics
    \/ FrontierPush
    \/ FrontierNext
    \/ BoxMullerDraw
    \/ BoxMullerTest
    \/ ClickCalculate

Spec == Init /\ [][Next]_vars
=============================================================================
